---- MODULE Spec2Model ----
(***************************************************************************)
(* State-machine model of the storage wrappers of mcp-webpage-to-s3:      *)
(* LibcloudStorageWrapper (src/src/libcloud_wrapper.py) and S3Wrapper     *)
(* (src/src/s3_wrapper.py).                                                *)
(*                                                                         *)
(* Python strings are sequences of one-character strings, so that split,  *)
(* replace, strip, startswith and lower are computed as Python computes   *)
(* them.  None and "" are both the empty sequence: the code only ever     *)
(* tests these optional fields for truthiness, where the two agree.       *)
(***************************************************************************)
EXTENDS Integers, Sequences, FiniteSets, TLC

\* ------------------------------------------------------------------ bounds
NumCallers == 2
MaxUploads == 1
MaxFiles == 2
MaxCtor == 2
MaxPathLen == 3

Callers == 1..NumCallers
TempNames == 1..MaxFiles

\* ------------------------------------------------------- Python str methods
None == << >>

startswith(s, p) == Len(p) <= Len(s) /\ SubSeq(s, 1, Len(p)) = p

endswith(s, p) == Len(p) <= Len(s) /\ SubSeq(s, Len(s) - Len(p) + 1, Len(s)) = p

\* s.find(sub), 1-based; 0 when sub does not occur in s
find(s, sub) ==
    LET hits == {i \in 1..(Len(s) - Len(sub) + 1) : SubSeq(s, i, i + Len(sub) - 1) = sub}
    IN IF hits = {} THEN 0 ELSE CHOOSE i \in hits : \A j \in hits : i <= j

\* sub in s
contains(s, sub) == find(s, sub) # 0

\* s.split(sep): the list of pieces between the occurrences of sep
RECURSIVE split(_, _)
split(s, sep) ==
    LET i == find(s, sep)
    IN IF i = 0 THEN <<s>>
       ELSE <<SubSeq(s, 1, i - 1)>> \o split(SubSeq(s, i + Len(sep), Len(s)), sep)

\* variant: only the first occurrence is replaced
replace_first(s, old, new) ==
    LET i == find(s, old)
    IN IF i = 0 THEN s
       ELSE SubSeq(s, 1, i - 1) \o new \o SubSeq(s, i + Len(old), Len(s))

\* s.replace(old, new): every occurrence, left to right
RECURSIVE replace(_, _, _)
replace(s, old, new) ==
    LET i == find(s, old)
    IN IF i = 0 THEN s
       ELSE SubSeq(s, 1, i - 1) \o new \o replace(SubSeq(s, i + Len(old), Len(s)), old, new)

\* s.rstrip(ch)
RECURSIVE rstrip(_, _)
rstrip(s, ch) ==
    IF s # << >> /\ s[Len(s)] = ch THEN rstrip(SubSeq(s, 1, Len(s) - 1), ch) ELSE s

\* s.lstrip(ch)
RECURSIVE lstrip(_, _)
lstrip(s, ch) ==
    IF s # << >> /\ s[1] = ch THEN lstrip(SubSeq(s, 2, Len(s)), ch) ELSE s

\* s.strip(ch)
strip(s, ch) == lstrip(rstrip(s, ch), ch)

\* s.lower() on the letters the provider names use
lower(s) ==
    [i \in 1..Len(s) |->
        CASE s[i] = "S" -> "s"
          [] s[i] = "O" -> "o"
          [] s[i] = "G" -> "g"
          [] s[i] = "C" -> "c"
          [] OTHER -> s[i]]

\* ------------------------------------------------------------ string values
HTTPS == <<"h","t","t","p","s",":","/","/">>
HTTP == <<"h","t","t","p",":","/","/">>
OSS_DASH == <<"o","s","s","-">>
DOT == <<".">>
SLASH == <<"/">>
T_S3 == <<"s","3">>
T_OSS == <<"o","s","s">>
T_OSS_UPPER == <<"O","S","S">>
T_GCS == <<"g","c","s">>
CN_HANGZHOU == <<"c","n","-","h","a","n","g","z","h","o","u">>
US_EAST_1 == <<"u","s","-","e","a","s","t","-","1">>
AMAZONAWS_COM == <<"a","m","a","z","o","n","a","w","s",".","c","o","m">>
ALIYUNCS_COM == <<"a","l","i","y","u","n","c","s",".","c","o","m">>

\* the endpoints a configuration may carry
EP_OSS == HTTPS \o OSS_DASH \o <<"c","n","-","s","h">> \o DOT \o ALIYUNCS_COM
EP_OSS_BARE == OSS_DASH \o <<"e","u">> \o DOT \o <<"a",".","c","n">> \o SLASH
EP_OSS_TWICE == HTTP \o <<"b",".">> \o OSS_DASH \o <<"u","s">> \o DOT \o OSS_DASH \o <<"i","n",".","c","n">>
EP_MINIO == HTTP \o <<"m","i","n","i","o",".","x">>
EP_AWS == HTTPS \o <<"s","3",".">> \o AMAZONAWS_COM
EP_OSS_HANGZHOU == HTTPS \o OSS_DASH \o CN_HANGZHOU \o DOT \o ALIYUNCS_COM

\* --------------------------------------------------------- configuration
\* A keyword argument that is not passed to the driver class.
ABSENT == <<"ABSENT">>

\* The record the wrappers read (LibcloudConfig / S3Config, duck-typed: the
\* fields are those the wrappers access).
mkConfig(t, ep, rg, bp) ==
    [remote_type |-> t, access_key_id |-> <<"k">>, secret_access_key |-> <<"s">>,
     endpoint |-> ep, region |-> rg, bucket |-> <<"b">>, base_path |-> bp,
     base_url |-> HTTPS \o <<"c",".","x">> \o SLASH]

RemoteTypes == {T_S3, T_OSS, T_OSS_UPPER, T_GCS}
Endpoints == {None, EP_OSS, EP_OSS_BARE, EP_OSS_TWICE, EP_MINIO, EP_AWS}
Regions == {None, <<"e","u","-","1">>}
BasePaths == {None, <<"/","u","p","/">>}

\* the base_path values of test_build_remote_path and of the documented examples
P_UPLOADS == <<"u","p","l","o","a","d","s">>
P_UPLOADS_SLASHED == <<"/","u","p","l","o","a","d","s","/">>
P_A_B == <<"a","/","b">>
\* relative paths: a file name, with and without a leading slash
P_F_HTML == <<"f",".","h","t","m","l">>
P_SLASH_F_HTML == <<"/","f",".","h","t","m","l">>
ListedBasePaths == {None, P_UPLOADS, P_UPLOADS_SLASHED, P_A_B}
ListedRelPaths == {None, P_F_HTML, P_SLASH_F_HTML}

\* every string over "/" and "a" of at most MaxPathLen characters
SlashStrings == UNION {[1..n -> {"/", "a"}] : n \in 0..MaxPathLen}
PathInputs == SlashStrings \cup ListedBasePaths \cup ListedRelPaths

\* the remote paths _generate_file_url is applied to
UrlPaths == {<<"x">>, <<"u","/","x">>, P_F_HTML}

\* every configuration of the construction specification
AllConfigs ==
    {mkConfig(t, ep, rg, bp) : t \in RemoteTypes, ep \in Endpoints, rg \in Regions, bp \in {None}}

\* configurations with a base_path, for the uploads of the construction specification
BasePathConfigs ==
    {mkConfig(T_S3, EP_MINIO, None, <<"/","u","p","/">>),
     mkConfig(T_OSS, EP_OSS, None, <<"/","u","p","/">>),
     mkConfig(T_S3, None, None, <<"/">>)}

\* the configurations the services of the concurrent specification run with
ServiceConfigs ==
    {mkConfig(T_S3, None, None, <<"/","u","p","/">>),
     mkConfig(T_OSS, None, None, None),
     mkConfig(T_OSS_UPPER, EP_OSS, None, None)}

\* ------------------------------------------------------------- exceptions
StorageError(where, cause, code, message) ==
    [type |-> "StorageError", where |-> where, cause |-> cause, code |-> code,
     message |-> message]

NoError == [type |-> "none", where |-> "", cause |-> "", code |-> 0, message |-> ""]

\* KeyboardInterrupt / asyncio.CancelledError arriving inside the blocking upload:
\* a BaseException, which no "except Exception" clause catches
Interrupted ==
    [type |-> "BaseException", where |-> "_upload_file", cause |-> "interrupt", code |-> 0,
     message |-> "interrupted"]

\* what a call of the storage SDK can answer
BackendFailures ==
    {[kind |-> "http", code |-> 403, message |-> "Access Denied"],
     [kind |-> "exception", code |-> 0, message |-> "connection reset"]}

\* ---------------------------------------------------- wrapper construction
NoDriver == [key |-> ABSENT, secret |-> ABSENT, region |-> ABSENT, host |-> ABSENT,
             secure |-> "unset"]

\* Fault variant of oss_kwargs: the endpoint is looked at before the explicit region.
oss_kwargs_endpoint_first(cfg) ==
    LET base == [NoDriver EXCEPT !.key = cfg.access_key_id, !.secret = cfg.secret_access_key]
    IN IF cfg.endpoint # None /\ contains(cfg.endpoint, OSS_DASH)
         THEN LET region == split(split(cfg.endpoint, OSS_DASH)[2], DOT)[1]
              IN [kwargs |-> [base EXCEPT !.region = region],
                  config |-> [cfg EXCEPT !.region = region]]
       ELSE IF cfg.region # None
         THEN [kwargs |-> [base EXCEPT !.region = cfg.region], config |-> cfg]
       ELSE IF cfg.endpoint # None
         THEN [kwargs |-> base, config |-> cfg]
       ELSE [kwargs |-> [base EXCEPT !.region = CN_HANGZHOU],
             config |-> [cfg EXCEPT !.region = CN_HANGZHOU]]

\* Fault variant of oss_kwargs: the resolved region reaches the driver but is not
\* written back into the configuration.
oss_kwargs_no_writeback(cfg) ==
    LET base == [NoDriver EXCEPT !.key = cfg.access_key_id, !.secret = cfg.secret_access_key]
    IN IF cfg.region # None
         THEN [kwargs |-> [base EXCEPT !.region = cfg.region], config |-> cfg]
       ELSE IF cfg.endpoint # None
         THEN IF contains(cfg.endpoint, OSS_DASH)
                THEN [kwargs |-> [base EXCEPT !.region =
                                     split(split(cfg.endpoint, OSS_DASH)[2], DOT)[1]],
                      config |-> cfg]
                ELSE [kwargs |-> base, config |-> cfg]
       ELSE [kwargs |-> [base EXCEPT !.region = CN_HANGZHOU], config |-> cfg]

\* libcloud_wrapper.py:57-77, the OSS branch: the keyword arguments and the
\* configuration after the region was resolved
oss_kwargs(cfg) ==
    LET base == [NoDriver EXCEPT !.key = cfg.access_key_id, !.secret = cfg.secret_access_key]
    IN IF cfg.region # None
         THEN [kwargs |-> [base EXCEPT !.region = cfg.region], config |-> cfg]
       ELSE IF cfg.endpoint # None
         THEN IF contains(cfg.endpoint, OSS_DASH)
                THEN LET region == split(split(cfg.endpoint, OSS_DASH)[2], DOT)[1]
                     IN [kwargs |-> [base EXCEPT !.region = region],
                         config |-> [cfg EXCEPT !.region = region]]
                ELSE [kwargs |-> base, config |-> cfg]
       ELSE [kwargs |-> [base EXCEPT !.region = CN_HANGZHOU],
             config |-> [cfg EXCEPT !.region = CN_HANGZHOU]]

\* Fault variant of s3_kwargs: the connection is never marked non-secure
s3_kwargs_always_secure(cfg) ==
    LET base == [NoDriver EXCEPT !.key = cfg.access_key_id, !.secret = cfg.secret_access_key]
        k1 == IF cfg.region # None THEN [base EXCEPT !.region = cfg.region] ELSE base
        k2 == IF cfg.endpoint # None
                THEN [k1 EXCEPT !.host = replace(replace(cfg.endpoint, HTTPS, << >>), HTTP, << >>)]
                ELSE k1
    IN [kwargs |-> k2, config |-> cfg]

\* libcloud_wrapper.py:36-55, the S3 branch
s3_kwargs(cfg) ==
    LET base == [NoDriver EXCEPT !.key = cfg.access_key_id, !.secret = cfg.secret_access_key]
        k1 == IF cfg.region # None THEN [base EXCEPT !.region = cfg.region] ELSE base
        k2 == IF cfg.endpoint # None
                THEN [k1 EXCEPT !.host = replace(replace(cfg.endpoint, HTTPS, << >>), HTTP, << >>),
                                !.secure = IF ~startswith(cfg.endpoint, HTTPS)
                                             THEN "False" ELSE "unset"]
                ELSE k1
    IN [kwargs |-> k2, config |-> cfg]

\* Fault variant of create_driver: no else branch, an unknown provider type is
\* handed to the OSS driver class instead of being refused.
create_driver_fallthrough(cfg, ctor_ok) ==
    LET t == lower(cfg.remote_type)
        r == IF t = T_S3 THEN s3_kwargs(cfg) ELSE oss_kwargs(cfg)
    IN IF ~ctor_ok
         THEN [ok |-> FALSE, driver |-> NoDriver, config |-> r.config, net |-> FALSE,
               err |-> StorageError("_create_driver", "driver_cls", 0, "driver init")]
         ELSE [ok |-> TRUE, driver |-> r.kwargs, config |-> r.config, net |-> FALSE,
               err |-> NoError]

\* LibcloudStorageWrapper._create_driver: ctor_ok is whether driver_cls(**kwargs)
\* returns (it is the SDK's constructor; it opens no connection).  The result
\* is the outcome, the driver, the configuration as left behind, and whether the
\* storage backend was called.
create_driver(cfg, ctor_ok) ==
    LET t == lower(cfg.remote_type)
        r == IF t = T_S3 THEN s3_kwargs(cfg) ELSE oss_kwargs(cfg)
    IN IF t # T_S3 /\ t # T_OSS
         THEN [ok |-> FALSE, driver |-> NoDriver, config |-> cfg, net |-> FALSE,
               err |-> StorageError("_create_driver", "unsupported_type", 0, "unsupported")]
       ELSE IF ~ctor_ok
         THEN [ok |-> FALSE, driver |-> NoDriver, config |-> r.config, net |-> FALSE,
               err |-> StorageError("_create_driver", "driver_cls", 0, "driver init")]
       ELSE [ok |-> TRUE, driver |-> r.kwargs, config |-> r.config, net |-> FALSE,
             err |-> NoError]

\* S3Wrapper._create_s3_client: boto3.client(...) with the region and, when
\* set, the endpoint; it never writes the configuration
create_s3_client(cfg, ctor_ok) ==
    IF ~ctor_ok
      THEN [ok |-> FALSE, driver |-> NoDriver, config |-> cfg, net |-> FALSE,
            err |-> StorageError("_create_s3_client", "boto3.client", 0, "client init")]
      ELSE [ok |-> TRUE, config |-> cfg, net |-> FALSE, err |-> NoError,
            driver |-> [NoDriver EXCEPT !.key = cfg.access_key_id,
                                        !.secret = cfg.secret_access_key,
                                        !.region = cfg.region,
                                        !.host = IF cfg.endpoint # None THEN cfg.endpoint
                                                 ELSE ABSENT]]

\* ------------------------------------------------------- paths and URLs
\* '/'.join(parts)
RECURSIVE join(_, _)
join(parts, sep) ==
    IF parts = << >> THEN << >>
    ELSE IF Len(parts) = 1 THEN parts[1]
    ELSE parts[1] \o sep \o join(Tail(parts), sep)

\* Fault variant of _build_remote_path: the segments are joined as they are given
build_remote_path_no_strip(cfg, remote_path) ==
    LET p1 == IF cfg.base_path # None THEN <<cfg.base_path>> ELSE << >>
        p2 == IF remote_path # None THEN <<remote_path>> ELSE << >>
        path_parts == p1 \o p2
    IN IF path_parts # << >> THEN join(path_parts, SLASH) ELSE remote_path

\* LibcloudStorageWrapper._build_remote_path
build_remote_path(cfg, remote_path) ==
    LET p1 == IF cfg.base_path # None THEN <<strip(cfg.base_path, "/")>> ELSE << >>
        p2 == IF remote_path # None THEN <<strip(remote_path, "/")>> ELSE << >>
        path_parts == p1 \o p2
    IN IF path_parts # << >> THEN join(path_parts, SLASH) ELSE strip(remote_path, "/")

\* variant: the trailing slash of the endpoint is kept
endpoint_base_url_keep_slash(endpoint) ==
    IF ~(startswith(endpoint, HTTP) \/ startswith(endpoint, HTTPS))
      THEN HTTPS \o endpoint ELSE endpoint

\* base_url of _generate_file_url: the endpoint without trailing slashes, with
\* https:// put in front when it has no scheme
endpoint_base_url(endpoint) ==
    LET base_url == rstrip(endpoint, "/")
    IN IF ~(startswith(base_url, HTTP) \/ startswith(base_url, HTTPS))
         THEN HTTPS \o base_url ELSE base_url

\* variant: every S3 endpoint, Amazon's own included, is addressed path-style
generate_file_url_no_aws_test(cfg, remote_path) ==
    LET t == lower(cfg.remote_type)
    IN IF t = T_S3
         THEN IF cfg.endpoint # None
                THEN endpoint_base_url(cfg.endpoint) \o SLASH \o cfg.bucket \o SLASH \o remote_path
                ELSE LET region == IF cfg.region # None THEN cfg.region ELSE US_EAST_1
                     IN HTTPS \o cfg.bucket \o <<".","s","3",".">> \o region \o DOT
                        \o AMAZONAWS_COM \o SLASH \o remote_path
       ELSE IF t = T_OSS
         THEN IF cfg.endpoint # None
                THEN replace(endpoint_base_url(cfg.endpoint), OSS_DASH,
                             cfg.bucket \o DOT \o OSS_DASH) \o SLASH \o remote_path
                ELSE LET region == IF cfg.region # None THEN cfg.region ELSE CN_HANGZHOU
                     IN HTTPS \o cfg.bucket \o DOT \o OSS_DASH \o region \o DOT
                        \o ALIYUNCS_COM \o SLASH \o remote_path
       ELSE HTTPS \o cfg.bucket \o DOT \o cfg.remote_type \o <<".","c","o","m">>
            \o SLASH \o remote_path

\* variant: the OSS URL without an endpoint ignores the configured region
generate_file_url_oss_fixed_region(cfg, remote_path) ==
    LET t == lower(cfg.remote_type)
    IN IF t = T_S3
         THEN IF cfg.endpoint # None /\ ~endswith(cfg.endpoint, AMAZONAWS_COM)
                THEN endpoint_base_url(cfg.endpoint) \o SLASH \o cfg.bucket \o SLASH \o remote_path
                ELSE LET region == IF cfg.region # None THEN cfg.region ELSE US_EAST_1
                     IN HTTPS \o cfg.bucket \o <<".","s","3",".">> \o region \o DOT
                        \o AMAZONAWS_COM \o SLASH \o remote_path
       ELSE IF t = T_OSS
         THEN IF cfg.endpoint # None
                THEN replace(endpoint_base_url(cfg.endpoint), OSS_DASH,
                             cfg.bucket \o DOT \o OSS_DASH) \o SLASH \o remote_path
                ELSE HTTPS \o cfg.bucket \o DOT \o OSS_DASH \o CN_HANGZHOU \o DOT
                     \o ALIYUNCS_COM \o SLASH \o remote_path
       ELSE HTTPS \o cfg.bucket \o DOT \o cfg.remote_type \o <<".","c","o","m">>
            \o SLASH \o remote_path

\* LibcloudStorageWrapper._generate_file_url
generate_file_url(cfg, remote_path) ==
    LET t == lower(cfg.remote_type)
    IN IF t = T_S3
         THEN IF cfg.endpoint # None /\ ~endswith(cfg.endpoint, AMAZONAWS_COM)
                THEN endpoint_base_url(cfg.endpoint) \o SLASH \o cfg.bucket \o SLASH \o remote_path
                ELSE LET region == IF cfg.region # None THEN cfg.region ELSE US_EAST_1
                     IN HTTPS \o cfg.bucket \o <<".","s","3",".">> \o region \o DOT
                        \o AMAZONAWS_COM \o SLASH \o remote_path
       ELSE IF t = T_OSS
         THEN IF cfg.endpoint # None
                THEN replace(endpoint_base_url(cfg.endpoint), OSS_DASH,
                             cfg.bucket \o DOT \o OSS_DASH) \o SLASH \o remote_path
                ELSE LET region == IF cfg.region # None THEN cfg.region ELSE CN_HANGZHOU
                     IN HTTPS \o cfg.bucket \o DOT \o OSS_DASH \o region \o DOT
                        \o ALIYUNCS_COM \o SLASH \o remote_path
       ELSE HTTPS \o cfg.bucket \o DOT \o cfg.remote_type \o <<".","c","o","m">>
            \o SLASH \o remote_path

\* upload_html_content, libcloud_wrapper.py:158-161: the path handed to _upload_file
html_remote_path(remote_path, filename) ==
    IF remote_path # None THEN strip(remote_path, "/") \o SLASH \o filename ELSE filename

\* S3Wrapper._upload_file, s3_wrapper.py:92: the URL it returns
s3_file_url(cfg, file_name) == rstrip(cfg.base_url, "/") \o SLASH \o file_name

\* ------------------------------------------------------------ call outcomes
NoOutcome == [kind |-> "none", url |-> << >>, err |-> NoError]
Returned(url) == [kind |-> "return", url |-> url, err |-> NoError]
Raised(err) == [kind |-> "raise", url |-> << >>, err |-> err]

\* _upload_file's except clauses (libcloud_wrapper.py:124-131, s3_wrapper.py:94-106):
\* a BaseHTTPError / ClientError keeps its code and message in the text, any
\* other exception its str()
upload_file_error(f) ==
    IF f.kind = "http"
      THEN StorageError("_upload_file", "http", f.code, f.message)
      ELSE StorageError("_upload_file", "exception", 0, f.message)

\* upload_html_content's outer except (libcloud_wrapper.py:174-177): str(e) is
\* embedded in the new StorageError's text
html_upload_error(e) == StorageError("upload_html_content", e.cause, e.code, e.message)

\* Fault variant of check_connection: only BaseHTTPError is caught.
check_connection_http_only(outcome) ==
    IF outcome = "ok"
      THEN [outcome |-> outcome, kind |-> "return", value |-> TRUE]
    ELSE IF outcome = "http"
      THEN [outcome |-> outcome, kind |-> "return", value |-> FALSE]
    ELSE [outcome |-> outcome, kind |-> "raise", value |-> FALSE]

\* LibcloudStorageWrapper.check_connection, given what list_containers() did
check_connection(outcome) ==
    IF outcome = "ok"
      THEN [outcome |-> outcome, kind |-> "return", value |-> TRUE]
      ELSE [outcome |-> outcome, kind |-> "return", value |-> FALSE]

ListOutcomes == {"ok", "http", "exception"}
NoCheck == [outcome |-> "none", kind |-> "none", value |-> FALSE]

F_HTML == <<"f",".","h","t","m","l">>
Filenames == {F_HTML}

\* ---------------------------------------------------------- the MCP tools
\* html_content is a sequence of Unicode code points
C_EMPTY == << >>
C_ASCII == <<60>>
C_LATIN == <<233>>
C_EURO == <<60, 8364>>
C_CJK == <<20013>>
C_EMOJI == <<128512>>
C_SURROGATE == <<55296>>
Contents == {C_EMPTY, C_ASCII, C_LATIN, C_EURO, C_CJK, C_EMOJI, C_SURROGATE}

\* the filename argument of deploy_html, with and without the suffix
F_BARE == <<"f">>
ToolFilenames == {F_HTML, F_BARE}

\* what the clients of a specification send: contents and file names
PlainInputs == [contents |-> {C_ASCII}, filenames |-> {F_HTML}]
AllInputs == [contents |-> Contents, filenames |-> ToolFilenames]

\* a lone surrogate has no UTF-8 encoding: str.encode and the write to a file
\* opened with encoding='utf-8' raise UnicodeEncodeError
encodable(html_content) ==
    \A i \in 1..Len(html_content) : html_content[i] < 55296 \/ html_content[i] > 57343

\* the number of bytes UTF-8 takes for one code point
utf8_bytes(cp) == IF cp < 128 THEN 1 ELSE IF cp < 2048 THEN 2 ELSE IF cp < 65536 THEN 3 ELSE 4

\* Fault variant of size_bytes: the number of characters
size_bytes_characters(html_content) == Len(html_content)

\* len(html_content.encode("utf-8"))
RECURSIVE size_bytes(_)
size_bytes(html_content) ==
    IF html_content = << >> THEN 0
    ELSE utf8_bytes(Head(html_content)) + size_bytes(Tail(html_content))

\* deploy_html, server.py:66-67
deploy_filename(filename) ==
    IF ~endswith(filename, <<".","h","t","m","l">>)
      THEN filename \o <<".","h","t","m","l">> ELSE filename

NoReply == [kind |-> "none", success |-> FALSE, url |-> << >>, error |-> NoError,
            filename |-> << >>, size_bytes |-> -1]

\* Fault variant of deploy_reply: no except clause, a failed upload leaves the tool
deploy_reply_reraises(a, r) ==
    IF r.kind = "return"
      THEN [kind |-> "dict", success |-> TRUE, url |-> r.url, error |-> NoError,
            filename |-> a.filename, size_bytes |-> size_bytes(a.html_content)]
      ELSE [NoReply EXCEPT !.kind = "raise", !.error = r.err]

\* deploy_html, server.py:76-94: the dictionary it returns for the outcome r of
\* upload_html_content; an exception that is not an Exception leaves it
deploy_reply(a, r) ==
    IF r.kind = "return"
      THEN [kind |-> "dict", success |-> TRUE, url |-> r.url, error |-> NoError,
            filename |-> a.filename, size_bytes |-> size_bytes(a.html_content)]
    ELSE IF r.err.type # "BaseException"
      THEN [kind |-> "dict", success |-> FALSE, url |-> << >>, error |-> r.err,
            filename |-> a.filename, size_bytes |-> -1]
    ELSE [NoReply EXCEPT !.kind = "raise", !.error = r.err]

NoStatus == [kind |-> "none", success |-> FALSE, server_status |-> "", storage_connection |-> ""]

\* check_status, server.py:103-121, given what check_connection did
status_reply(check) ==
    IF check.kind = "return"
      THEN [kind |-> "dict", success |-> TRUE, server_status |-> "running",
            storage_connection |-> IF check.value THEN "ok" ELSE "failed"]
      ELSE [kind |-> "dict", success |-> FALSE, server_status |-> "", storage_connection |-> ""]
RemotePaths == {None, <<"/","p","/">>}

\* ------------------------------------------------------------------ state
VARIABLES
    impl,          \* which wrapper class the process builds: "libcloud" or "boto3"
    config,        \* the shared configuration record (self.config)
    given,         \* the configuration as it was handed to the first constructor
    wstate,        \* "none" before construction, then "ok" or "failed"
    driver,        \* the keyword arguments the driver / client was built with
    ctorErr,       \* the exception the last construction raised
    ctorCount,     \* constructions so far
    netUsed,       \* whether the storage backend was ever called
    bucketExists,  \* backend: the configured bucket exists
    objects,       \* backend: the object keys stored in the bucket
    disk,          \* temp directory: name -> the caller whose call created it, 0 if absent
    pc,            \* each caller's position inside upload_html_content
    args,          \* each caller's arguments
    created,       \* the file NamedTemporaryFile created for the call, 0 if none
    tempPath,      \* the local temp_path, 0 while unbound
    fault,         \* the failure the storage SDK raised in this call, if any
    pending,       \* the outcome leaving the inner try block, before finally
    result,        \* the outcome of upload_html_content as the caller sees it
    calls,         \* finished calls per caller
    lastCheck,     \* the last check_connection call
    container,     \* how the call got its container handle: "none", "found" or "created"
    sentKey,       \* the object key the call passed to the backend upload, << >> if none
    pureIn,        \* the arguments of a helper applied on its own
    pureOut,       \* what the helper returned
    offered,       \* the contents and file names the clients send
    reply,         \* what deploy_html answered each caller
    statusReply    \* what check_status answered last

vars == <<impl, config, given, wstate, driver, ctorErr, ctorCount, netUsed, bucketExists,
          objects, disk, pc, args, created, tempPath, fault, pending, result, calls, lastCheck,
          container, sentKey, pureIn, pureOut, offered, reply, statusReply>>

ctorVars == <<config, wstate, driver, ctorErr, ctorCount>>
backendVars == <<bucketExists, objects>>
callVars == <<pc, args, created, tempPath, fault, pending, result, calls, container, sentKey>>
pureVars == <<pureIn, pureOut>>
toolVars == <<reply, statusReply>>

NoPure == [set |-> FALSE, value |-> << >>]

NoFault == [kind |-> "none", code |-> 0, message |-> ""]
AlreadyExists == [kind |-> "exception", code |-> 0, message |-> "already exists"]
OpenFailed == [kind |-> "exception", code |-> 0, message |-> "open failed"]

NoArgs == [html_content |-> << >>, filename |-> << >>, remote_path |-> << >>]

InitRest ==
    /\ given = config
    /\ wstate = "none"
    /\ driver = NoDriver
    /\ ctorErr = NoError
    /\ ctorCount = 0
    /\ netUsed = FALSE
    /\ bucketExists \in BOOLEAN
    /\ objects = {}
    /\ disk = [n \in TempNames |-> 0]
    /\ pc = [c \in Callers |-> "idle"]
    /\ args = [c \in Callers |-> NoArgs]
    /\ created = [c \in Callers |-> 0]
    /\ tempPath = [c \in Callers |-> 0]
    /\ fault = [c \in Callers |-> NoFault]
    /\ pending = [c \in Callers |-> NoOutcome]
    /\ result = [c \in Callers |-> NoOutcome]
    /\ calls = [c \in Callers |-> 0]
    /\ lastCheck = NoCheck
    /\ container = [c \in Callers |-> "none"]
    /\ sentKey = [c \in Callers |-> << >>]
    /\ reply = [c \in Callers |-> NoReply]
    /\ statusReply = NoStatus

\* the service: a few configurations, concurrent callers
Init ==
    /\ \/ impl = "libcloud" /\ config \in ServiceConfigs
       \/ impl = "boto3" /\ config = mkConfig(T_S3, None, US_EAST_1, None)
    /\ pureIn = NoPure
    /\ pureOut = NoPure
    /\ offered = PlainInputs
    /\ InitRest

\* construction: every configuration
InitConfig ==
    /\ \/ impl = "libcloud" /\ config \in AllConfigs \cup BasePathConfigs
       \/ impl = "boto3" /\ config = mkConfig(T_S3, None, US_EAST_1, None)
    /\ pureIn = NoPure
    /\ pureOut = NoPure
    /\ offered = PlainInputs
    /\ InitRest

\* ---------------------------------------------------------------- actions
\* LibcloudStorageWrapper.__init__ / S3Wrapper.__init__ (also: a further wrapper
\* built from the same configuration object while no call is running)
Construct ==
    /\ wstate \in {"none", "ok"}
    /\ ctorCount < MaxCtor
    /\ \A c \in Callers : pc[c] = "idle"
    /\ \E ctor_ok \in BOOLEAN :
         LET r == IF impl = "libcloud" THEN create_driver(config, ctor_ok)
                  ELSE create_s3_client(config, ctor_ok)
         IN /\ config' = r.config
            /\ driver' = r.driver
            /\ ctorErr' = r.err
            /\ wstate' = IF r.ok THEN "ok" ELSE "failed"
            /\ netUsed' = (netUsed \/ r.net)
    /\ ctorCount' = ctorCount + 1
    /\ UNCHANGED <<impl, given, offered, toolVars, pureVars, backendVars, disk, callVars, lastCheck>>

\* Fault variant of CheckConnection: the health check fills in a missing region.
CheckConnection_backfill ==
    /\ wstate = "ok"
    /\ impl = "libcloud"
    /\ \E outcome \in ListOutcomes : lastCheck' = check_connection(outcome)
    /\ netUsed' = TRUE
    /\ config' = [config EXCEPT !.region = IF config.region # None THEN config.region
                                            ELSE CN_HANGZHOU]
    /\ UNCHANGED <<impl, given, offered, toolVars, pureVars, wstate, driver, ctorErr, ctorCount, backendVars, disk, callVars>>

\* check_connection: one list_containers() call
CheckConnection ==
    /\ wstate = "ok"
    /\ impl = "libcloud"
    /\ \E outcome \in ListOutcomes : lastCheck' = check_connection(outcome)
    /\ netUsed' = TRUE
    /\ UNCHANGED <<impl, given, offered, toolVars, pureVars, ctorVars, backendVars, disk, callVars>>

\* a client calls deploy_html, which completes the file name and enters
\* upload_html_content
StartUpload(c) ==
    /\ wstate = "ok"
    /\ pc[c] = "idle"
    /\ calls[c] < MaxUploads
    /\ \E html \in offered.contents, fn \in offered.filenames, rp \in RemotePaths :
         args' = [args EXCEPT ![c] = [html_content |-> html, filename |-> deploy_filename(fn),
                                      remote_path |-> rp]]
    /\ reply' = [reply EXCEPT ![c] = NoReply]
    /\ pc' = [pc EXCEPT ![c] = "create"]
    /\ created' = [created EXCEPT ![c] = 0]
    /\ tempPath' = [tempPath EXCEPT ![c] = 0]
    /\ fault' = [fault EXCEPT ![c] = NoFault]
    /\ container' = [container EXCEPT ![c] = "none"]
    /\ sentKey' = [sentKey EXCEPT ![c] = << >>]
    /\ pending' = [pending EXCEPT ![c] = NoOutcome]
    /\ result' = [result EXCEPT ![c] = NoOutcome]
    /\ UNCHANGED <<impl, given, offered, statusReply, pureVars, ctorVars, netUsed, backendVars, disk, calls, lastCheck>>

\* Fault variant of CreateTemp: a predictable name, opened without checking
\* that it is free
CreateTemp_NameInUse(c) ==
    /\ pc[c] = "create"
    /\ \/ \E n \in TempNames :
            /\ disk' = [disk EXCEPT ![n] = c]
            /\ created' = [created EXCEPT ![c] = n]
            /\ pc' = [pc EXCEPT ![c] = "write"]
            /\ UNCHANGED result
       \/ /\ result' = [result EXCEPT ![c] =
                          Raised(StorageError("upload_html_content", "tempfile", 0, "mkstemp"))]
          /\ pc' = [pc EXCEPT ![c] = "done"]
          /\ UNCHANGED <<disk, created>>
    /\ UNCHANGED <<impl, given, offered, toolVars, pureVars, container, sentKey, ctorVars, netUsed, backendVars, args, tempPath, fault, pending,
                   calls, lastCheck>>

\* tempfile.NamedTemporaryFile(delete=False): a file under a name not in use, or
\* an OSError that the outer except turns into StorageError
CreateTemp(c) ==
    /\ pc[c] = "create"
    /\ \/ \E n \in TempNames :
            /\ disk[n] = 0
            /\ disk' = [disk EXCEPT ![n] = c]
            /\ created' = [created EXCEPT ![c] = n]
            /\ pc' = [pc EXCEPT ![c] = "write"]
            /\ UNCHANGED result
       \/ /\ result' = [result EXCEPT ![c] =
                          Raised(StorageError("upload_html_content", "tempfile", 0, "mkstemp"))]
          /\ pc' = [pc EXCEPT ![c] = "done"]
          /\ UNCHANGED <<disk, created>>
    /\ UNCHANGED <<impl, given, offered, toolVars, pureVars, container, sentKey, ctorVars, netUsed, backendVars, args, tempPath, fault, pending,
                   calls, lastCheck>>

\* temp_file.write(html_content) and the close at the end of the with block.
\* temp_path is bound only after the write; when the write (or the flush at
\* close) raises, control goes straight to the outer except and the file, made
\* with delete=False, stays.
WriteTemp(c) ==
    /\ pc[c] = "write"
    /\ \/ /\ encodable(args[c].html_content)
          /\ tempPath' = [tempPath EXCEPT ![c] = created[c]]
          /\ pc' = [pc EXCEPT ![c] = IF impl = "libcloud" THEN "lookup" ELSE "put"]
          /\ UNCHANGED result
       \/ /\ result' = [result EXCEPT ![c] =
                          Raised(StorageError("upload_html_content", "write", 0, "disk full"))]
          /\ pc' = [pc EXCEPT ![c] = "done"]
          /\ UNCHANGED tempPath
    /\ UNCHANGED <<impl, given, offered, toolVars, pureVars, container, sentKey, ctorVars, netUsed, backendVars, disk, args, created, fault, pending,
                   calls, lastCheck>>

\* the local file _upload_file is about to read is there
local_exists(c) == disk[tempPath[c]] # 0

\* _upload_file line 100-101 (s3_wrapper.py:74-75): raised outside the try
MissingLocal == Raised(StorageError("_upload_file", "missing_local", 0, "no local file"))

\* the storage SDK raised f inside _upload_file's try block
BackendFails(c, f) ==
    /\ fault' = [fault EXCEPT ![c] = f]
    /\ pending' = [pending EXCEPT ![c] = Raised(upload_file_error(f))]

\* Fault variant of GetContainer: any error of the lookup leads to create_container
GetContainer_CreateOnAnyError(c) ==
    /\ pc[c] = "lookup"
    /\ \/ /\ ~local_exists(c)
          /\ pending' = [pending EXCEPT ![c] = MissingLocal]
          /\ pc' = [pc EXCEPT ![c] = "cleanup"]
          /\ UNCHANGED <<netUsed, fault, container>>
       \/ /\ local_exists(c)
          /\ netUsed' = TRUE
          /\ \/ /\ bucketExists
                /\ container' = [container EXCEPT ![c] = "found"]
                /\ pc' = [pc EXCEPT ![c] = "upload"]
                /\ UNCHANGED <<pending, fault>>
             \/ /\ ~bucketExists
                /\ pc' = [pc EXCEPT ![c] = "create_container"]
                /\ UNCHANGED <<pending, fault, container>>
             \/ \E f \in BackendFailures :
                  /\ pc' = [pc EXCEPT ![c] = "create_container"]
                  /\ UNCHANGED <<pending, fault, container>>
    /\ UNCHANGED <<impl, given, offered, toolVars, pureVars, sentKey, ctorVars, backendVars, disk, args, created, tempPath, result,
                   calls, lastCheck>>

\* _upload_file -> _get_or_create_container -> driver.get_container(bucket)
GetContainer(c) ==
    /\ pc[c] = "lookup"
    /\ \/ /\ ~local_exists(c)
          /\ pending' = [pending EXCEPT ![c] = MissingLocal]
          /\ pc' = [pc EXCEPT ![c] = "cleanup"]
          /\ UNCHANGED <<netUsed, fault, container>>
       \/ /\ local_exists(c)
          /\ netUsed' = TRUE
          /\ \/ /\ bucketExists
                /\ container' = [container EXCEPT ![c] = "found"]
                /\ pc' = [pc EXCEPT ![c] = "upload"]
                /\ UNCHANGED <<pending, fault>>
             \/ /\ ~bucketExists
                /\ pc' = [pc EXCEPT ![c] = "create_container"]
                /\ UNCHANGED <<pending, fault, container>>
             \/ \E f \in BackendFailures :
                  /\ BackendFails(c, f)
                  /\ pc' = [pc EXCEPT ![c] = "cleanup"]
                  /\ UNCHANGED container
    /\ UNCHANGED <<impl, given, offered, toolVars, pureVars, sentKey, ctorVars, backendVars, disk, args, created, tempPath, result,
                   calls, lastCheck>>

\* the except ContainerDoesNotExistError branch: driver.create_container(bucket).
\* A bucket that exists by now makes the SDK raise (ContainerAlreadyExistsError).
CreateContainer(c) ==
    /\ pc[c] = "create_container"
    /\ netUsed' = TRUE
    /\ \/ /\ ~bucketExists
          /\ bucketExists' = TRUE
          /\ container' = [container EXCEPT ![c] = "created"]
          /\ pc' = [pc EXCEPT ![c] = "upload"]
          /\ UNCHANGED <<pending, fault>>
       \/ /\ bucketExists
          /\ BackendFails(c, AlreadyExists)
          /\ pc' = [pc EXCEPT ![c] = "cleanup"]
          /\ UNCHANGED <<bucketExists, container>>
       \/ \E f \in BackendFailures :
            /\ BackendFails(c, f)
            /\ pc' = [pc EXCEPT ![c] = "cleanup"]
            /\ UNCHANGED <<bucketExists, container>>
    /\ UNCHANGED <<impl, given, offered, toolVars, pureVars, sentKey, ctorVars, objects, disk, args, created, tempPath, result,
                   calls, lastCheck>>

\* Fault variant of UploadObject: the URL is derived from the path before
\* base_path was put in front
UploadObject_UrlOfRelativePath(c) ==
    /\ pc[c] = "upload"
    /\ LET full_remote_path ==
             build_remote_path(config, html_remote_path(args[c].remote_path, args[c].filename))
       IN \/ /\ ~local_exists(c)
             /\ BackendFails(c, OpenFailed)
             /\ UNCHANGED <<objects, netUsed, sentKey>>
          \/ /\ local_exists(c)
             /\ netUsed' = TRUE
             /\ sentKey' = [sentKey EXCEPT ![c] = full_remote_path]
             /\ \/ /\ objects' = objects \cup {full_remote_path}
                   /\ pending' = [pending EXCEPT ![c] =
                                     Returned(generate_file_url(config,
                                         html_remote_path(args[c].remote_path, args[c].filename)))]
                   /\ UNCHANGED fault
                \/ \E f \in BackendFailures :
                     /\ BackendFails(c, f)
                     /\ UNCHANGED objects
    /\ pc' = [pc EXCEPT ![c] = "cleanup"]
    /\ UNCHANGED <<impl, given, offered, toolVars, pureVars, container, ctorVars, bucketExists, disk, args, created, tempPath, result,
                   calls, lastCheck>>

\* Fault variant of UploadObject: the URL is made before the upload call and
\* returned whatever the call did
UploadObject_UrlBeforeUpload(c) ==
    /\ pc[c] = "upload"
    /\ LET full_remote_path ==
             build_remote_path(config, html_remote_path(args[c].remote_path, args[c].filename))
       IN \/ /\ ~local_exists(c)
             /\ BackendFails(c, OpenFailed)
             /\ UNCHANGED <<objects, netUsed, sentKey>>
          \/ /\ local_exists(c)
             /\ netUsed' = TRUE
             /\ sentKey' = [sentKey EXCEPT ![c] = full_remote_path]
             /\ \/ /\ objects' = objects \cup {full_remote_path}
                   /\ pending' = [pending EXCEPT ![c] =
                                     Returned(generate_file_url(config, full_remote_path))]
                   /\ UNCHANGED fault
                \/ \E f \in BackendFailures :
                     /\ fault' = [fault EXCEPT ![c] = f]
                     /\ pending' = [pending EXCEPT ![c] =
                                       Returned(generate_file_url(config, full_remote_path))]
                     /\ UNCHANGED objects
    /\ pc' = [pc EXCEPT ![c] = "cleanup"]
    /\ UNCHANGED <<impl, given, offered, toolVars, pureVars, container, ctorVars, bucketExists, disk, args, created, tempPath, result,
                   calls, lastCheck>>

\* _build_remote_path, open(local_path), driver.upload_object_via_stream(...),
\* _generate_file_url
UploadObject(c) ==
    /\ pc[c] = "upload"
    /\ LET full_remote_path ==
             build_remote_path(config, html_remote_path(args[c].remote_path, args[c].filename))
       IN \/ /\ ~local_exists(c)
             /\ BackendFails(c, OpenFailed)
             /\ UNCHANGED <<objects, netUsed, sentKey>>
          \/ /\ local_exists(c)
             /\ netUsed' = TRUE
             /\ sentKey' = [sentKey EXCEPT ![c] = full_remote_path]
             /\ \/ /\ objects' = objects \cup {full_remote_path}
                   /\ pending' = [pending EXCEPT ![c] =
                                     Returned(generate_file_url(config, full_remote_path))]
                   /\ UNCHANGED fault
                \/ \E f \in BackendFailures :
                     /\ BackendFails(c, f)
                     /\ UNCHANGED objects
    /\ pc' = [pc EXCEPT ![c] = "cleanup"]
    /\ UNCHANGED <<impl, given, offered, toolVars, pureVars, container, ctorVars, bucketExists, disk, args, created, tempPath, result,
                   calls, lastCheck>>

\* S3Wrapper._upload_file: read the file, s3_client.put_object(...), build the URL
PutObject(c) ==
    /\ pc[c] = "put"
    /\ \/ /\ ~local_exists(c)
          /\ pending' = [pending EXCEPT ![c] = MissingLocal]
          /\ UNCHANGED <<objects, netUsed, fault, sentKey>>
       \/ /\ local_exists(c)
          /\ netUsed' = TRUE
          /\ sentKey' = [sentKey EXCEPT ![c] = args[c].filename]
          /\ \/ /\ objects' = objects \cup {args[c].filename}
                /\ pending' = [pending EXCEPT ![c] =
                                  Returned(s3_file_url(config, args[c].filename))]
                /\ UNCHANGED fault
             \/ \E f \in BackendFailures :
                  /\ BackendFails(c, f)
                  /\ UNCHANGED objects
    /\ pc' = [pc EXCEPT ![c] = "cleanup"]
    /\ UNCHANGED <<impl, given, offered, toolVars, pureVars, container, ctorVars, bucketExists, disk, args, created, tempPath,
                   result, calls, lastCheck>>

\* Fault variant of Interrupt: the cleanup sits in an except Exception clause,
\* which an interrupt passes by
Interrupt_SkipsCleanup(c) ==
    /\ pc[c] \in {"lookup", "create_container", "upload", "put"}
    /\ pending' = [pending EXCEPT ![c] = Raised(Interrupted)]
    /\ result' = [result EXCEPT ![c] = Raised(Interrupted)]
    /\ pc' = [pc EXCEPT ![c] = "done"]
    /\ UNCHANGED <<impl, given, offered, toolVars, pureVars, container, sentKey, ctorVars, netUsed, backendVars, disk,
                   args, created, tempPath, fault, calls, lastCheck>>

\* the call is interrupted while _upload_file runs (inside the inner try of
\* upload_html_content): the exception unwinds to the finally block
Interrupt(c) ==
    /\ pc[c] \in {"lookup", "create_container", "upload", "put"}
    /\ pending' = [pending EXCEPT ![c] = Raised(Interrupted)]
    /\ pc' = [pc EXCEPT ![c] = "cleanup"]
    /\ UNCHANGED <<impl, given, offered, toolVars, pureVars, container, sentKey, ctorVars, netUsed, backendVars, disk,
                   args, created, tempPath, fault, result, calls, lastCheck>>

\* what the caller of upload_html_content sees once the finally block ran:
\* the pending outcome when the block raised nothing (a pending exception goes
\* through the outer except), the block's own exception otherwise
after_finally(p, unlink_raised) ==
    IF unlink_raised
      THEN Raised(StorageError("upload_html_content", "unlink", 0, "unlink failed"))
    ELSE IF p.kind = "raise" /\ p.err.type # "BaseException" THEN Raised(html_upload_error(p.err))
    ELSE p

\* Fault variant of Cleanup: no finally block, the temporary file is never unlinked.
Cleanup_NoUnlink(c) ==
    /\ pc[c] = "cleanup"
    /\ result' = [result EXCEPT ![c] = after_finally(pending[c], FALSE)]
    /\ pc' = [pc EXCEPT ![c] = "done"]
    /\ UNCHANGED <<impl, given, offered, toolVars, pureVars, container, sentKey, ctorVars, netUsed, backendVars, disk, args, created, tempPath,
                   fault, pending, calls, lastCheck>>

\* the finally block: if os.path.exists(temp_path): os.unlink(temp_path)
Cleanup(c) ==
    /\ pc[c] = "cleanup"
    /\ \/ /\ disk[tempPath[c]] # 0
          /\ \/ /\ disk' = [disk EXCEPT ![tempPath[c]] = 0]
                /\ result' = [result EXCEPT ![c] = after_finally(pending[c], FALSE)]
             \/ /\ UNCHANGED disk
                /\ result' = [result EXCEPT ![c] = after_finally(pending[c], TRUE)]
       \/ /\ disk[tempPath[c]] = 0
          /\ UNCHANGED disk
          /\ result' = [result EXCEPT ![c] = after_finally(pending[c], FALSE)]
    /\ pc' = [pc EXCEPT ![c] = "done"]
    /\ UNCHANGED <<impl, given, offered, toolVars, pureVars, container, sentKey, ctorVars, netUsed, backendVars, args, created, tempPath, fault,
                   pending, calls, lastCheck>>

\* deploy_html ends: the dictionary of server.py:78-94 goes to the client, or
\* the exception no except clause caught leaves the tool
DeployReturn(c) ==
    /\ pc[c] = "done"
    /\ reply' = [reply EXCEPT ![c] = deploy_reply(args[c], result[c])]
    /\ pc' = [pc EXCEPT ![c] = "replied"]
    /\ UNCHANGED <<impl, given, offered, statusReply, pureVars, container, sentKey, ctorVars, netUsed,
                   backendVars, disk, args, created, tempPath, fault, pending, result, calls,
                   lastCheck>>

\* the check_status tool: check_connection, then the dictionary of server.py:109-116
CheckStatus ==
    /\ wstate = "ok"
    /\ impl = "libcloud"
    /\ \E outcome \in ListOutcomes :
         /\ lastCheck' = check_connection(outcome)
         /\ statusReply' = status_reply(check_connection(outcome))
    /\ netUsed' = TRUE
    /\ UNCHANGED <<impl, given, offered, reply, pureVars, ctorVars, backendVars, disk, callVars>>

\* the client has the answer and may call again
Finish(c) ==
    /\ pc[c] = "replied"
    /\ reply' = [reply EXCEPT ![c] = NoReply]
    /\ pc' = [pc EXCEPT ![c] = "idle"]
    /\ calls' = [calls EXCEPT ![c] = calls[c] + 1]
    /\ created' = [created EXCEPT ![c] = 0]
    /\ tempPath' = [tempPath EXCEPT ![c] = 0]
    /\ fault' = [fault EXCEPT ![c] = NoFault]
    /\ container' = [container EXCEPT ![c] = "none"]
    /\ sentKey' = [sentKey EXCEPT ![c] = << >>]
    /\ pending' = [pending EXCEPT ![c] = NoOutcome]
    /\ result' = [result EXCEPT ![c] = NoOutcome]
    /\ args' = [args EXCEPT ![c] = NoArgs]
    /\ UNCHANGED <<impl, given, offered, statusReply, pureVars, ctorVars, netUsed, backendVars, disk, lastCheck>>

Step(c) ==
    \/ StartUpload(c)
    \/ CreateTemp(c)
    \/ WriteTemp(c)
    \/ GetContainer(c)
    \/ CreateContainer(c)
    \/ UploadObject(c)
    \/ PutObject(c)
    \/ Interrupt(c)
    \/ Cleanup(c)
    \/ DeployReturn(c)
    \/ Finish(c)

Next ==
    \/ Construct
    \/ CheckConnection
    \/ \E c \in Callers : Step(c)

Spec == Init /\ [][Next]_vars

\* one wrapper, every configuration, one caller at a time
NextConfig ==
    \/ Construct
    \/ CheckConnection
    \/ Step(1)

SpecConfig == InitConfig /\ [][NextConfig]_vars

\* the server of server.py: one libcloud wrapper, the two tools, every content
InitDeploy ==
    /\ impl = "libcloud"
    /\ config \in ServiceConfigs
    /\ pureIn = NoPure
    /\ pureOut = NoPure
    /\ offered = AllInputs
    /\ InitRest

NextDeploy ==
    \/ Construct
    \/ CheckStatus
    \/ StartUpload(1)
    \/ CreateTemp(1)
    \/ WriteTemp(1)
    \/ GetContainer(1)
    \/ CreateContainer(1)
    \/ UploadObject(1)
    \/ Interrupt(1)
    \/ Cleanup(1)
    \/ DeployReturn(1)
    \/ Finish(1)

SpecDeploy == InitDeploy /\ [][NextDeploy]_vars

\* ------------------------------------------------ helpers applied on their own
\* the configurations a wrapper can hold when _generate_file_url runs: as given,
\* or as _create_driver left them (region written back)
UrlGiven == AllConfigs \cup {mkConfig(T_OSS, EP_OSS_HANGZHOU, None, None)}

UrlConfigs == UrlGiven \cup {create_driver(cfg, TRUE).config : cfg \in UrlGiven}

InitUrl ==
    /\ impl = "libcloud"
    /\ config \in UrlConfigs
    /\ pureIn \in {[set |-> TRUE, value |-> p] : p \in UrlPaths}
    /\ pureOut = NoPure
    /\ offered = PlainInputs
    /\ InitRest

\* url = self._generate_file_url(remote_path)
ApplyGenerateFileUrl ==
    /\ pureIn.set /\ ~pureOut.set
    /\ pureOut' = [set |-> TRUE, value |-> generate_file_url(config, pureIn.value)]
    /\ UNCHANGED <<impl, given, offered, toolVars, pureIn, ctorVars, netUsed, backendVars, disk, callVars, lastCheck>>

NextUrl == ApplyGenerateFileUrl

SpecUrl == InitUrl /\ [][NextUrl]_vars

InitPath ==
    /\ impl = "libcloud"
    /\ \E bp \in PathInputs : config = mkConfig(T_S3, None, None, bp)
    /\ pureIn \in {[set |-> TRUE, value |-> p] : p \in PathInputs}
    /\ pureOut = NoPure
    /\ offered = PlainInputs
    /\ InitRest

\* full_remote_path = self._build_remote_path(remote_path)
ApplyBuildRemotePath ==
    /\ pureIn.set /\ ~pureOut.set
    /\ pureOut' = [set |-> TRUE, value |-> build_remote_path(config, pureIn.value)]
    /\ UNCHANGED <<impl, given, offered, toolVars, pureIn, ctorVars, netUsed, backendVars, disk, callVars, lastCheck>>

NextPath == ApplyBuildRemotePath

SpecPath == InitPath /\ [][NextPath]_vars

\* ======================================================== properties
\* the call of caller c has returned to its caller
Done(c) == pc[c] = "done"

\* the temporary file the call of caller c created is still on disk
TempLeft(c) == created[c] # 0 /\ disk[created[c]] = c

\* the call created its temporary file and wrote the content into it
Written(c) == tempPath[c] # 0

\* the finally block's os.unlink raised
UnlinkRaised(c) == result[c].kind = "raise" /\ result[c].err.cause = "unlink"

\* the storage backend failed the upload (lookup, creation or object upload)
BackendFailed(c) == fault[c] \in BackendFailures

C2_WriteFailureCleansUp ==
    \A c \in Callers :
        (Done(c) /\ result[c].kind = "raise" /\ result[c].err.cause = "write") => ~TempLeft(c)

\* C3: a failure while deleting the temporary file never changes the outcome of
\* upload_html_content: a successful upload still returns its URL, a failed one
\* still shows the caller the original upload failure.
C3_CleanupNeverMasks ==
    \A c \in Callers :
        (Done(c) /\ Written(c)) =>
            /\ pending[c].kind = "return" => result[c] = pending[c]
            /\ pending[c].kind = "raise" =>
                  /\ result[c].kind = "raise"
                  /\ result[c].err.cause = pending[c].err.cause
                  /\ result[c].err.code = pending[c].err.code
                  /\ result[c].err.message = pending[c].err.message

\* what C4 says of a call whose upload the backend failed
C4_Holds(c) ==
    /\ pending[c].kind = "raise" /\ pending[c].err.type = "StorageError"
    /\ result[c].kind = "raise" /\ result[c].err.type = "StorageError"
    /\ pending[c].err.message = fault[c].message
    /\ result[c].err.message = fault[c].message
    /\ fault[c].kind = "http" =>
          /\ pending[c].err.code = fault[c].code
          /\ result[c].err.code = fault[c].code
    /\ ~TempLeft(c)

\* C4: when the storage backend fails the upload, _upload_file and
\* upload_html_content both fail with StorageError, the error carries the
\* backend's message and, for an HTTP error, its status code, and the temporary
\* file is removed.
C4_BackendFailure ==
    \A c \in Callers : (Done(c) /\ BackendFailed(c)) => C4_Holds(c)

\* C4 holds of every call in which os.unlink did not raise: the statement fails
\* through the unguarded unlink of the finally block alone
C4_BackendFailureUnlinkOk ==
    \A c \in Callers : (Done(c) /\ BackendFailed(c) /\ ~UnlinkRaised(c)) => C4_Holds(c)

\* C5: check_connection never raises; it returns True exactly when
\* list_containers() succeeded and False for every error.
C5_CheckConnectionTotal ==
    lastCheck.outcome # "none" =>
        /\ lastCheck.kind = "return"
        /\ lastCheck.value = (lastCheck.outcome = "ok")

\* the listing raised something that is no HTTP error, and False came back
C5_Witness ==
    lastCheck.outcome = "exception" /\ lastCheck.kind = "return" /\ lastCheck.value = FALSE

\* the wrapper under construction is LibcloudStorageWrapper for provider OSS
IsOss == impl = "libcloud" /\ lower(given.remote_type) = T_OSS

\* the provider type is neither s3 nor oss
Unsupported == impl = "libcloud" /\ lower(given.remote_type) \notin {T_S3, T_OSS}

\* C6 (as stated): constructing the wrapper with a provider type other than s3
\* or oss fails with ConfigurationError, and the storage backend is not called.
C6_AsStated ==
    (Unsupported /\ wstate # "none") =>
        /\ wstate = "failed"
        /\ ctorErr.type = "ConfigurationError"
        /\ ~netUsed

\* C6 (amended): constructing the wrapper with a provider type other than s3 or
\* oss fails at construction with StorageError (the exception type the code and
\* its test use; there is no ConfigurationError), no driver is built, and no call
\* to the storage backend is made before the failure.
C6_UnsupportedType ==
    (Unsupported /\ wstate # "none") =>
        /\ wstate = "failed"
        /\ ctorErr.type = "StorageError"
        /\ ctorErr.cause = "unsupported_type"
        /\ driver = NoDriver
        /\ ~netUsed

\* construction was attempted with provider "gcs" and failed
C6_Witness == given.remote_type = T_GCS /\ wstate = "failed" /\ ctorCount = 1

\* C7: for provider OSS, an endpoint that is set but does not contain "oss-"
\* (with no explicit region) makes construction fail instead of building a driver.
C7_EndpointWithoutOssRejected ==
    (IsOss /\ given.region = None /\ given.endpoint # None
           /\ ~contains(given.endpoint, OSS_DASH)) => wstate # "ok"

\* the token between the first "oss-" of the endpoint and the next "."
TokenAfterOss(ep) ==
    LET first == find(ep, OSS_DASH) + Len(OSS_DASH)
        dots == {j \in first..Len(ep) : ep[j] = "."}
        stop == IF dots = {} THEN Len(ep) + 1 ELSE CHOOSE j \in dots : \A k \in dots : j <= k
    IN SubSeq(ep, first, stop - 1)

C9_RegionWrittenBack ==
    (IsOss /\ wstate = "ok") =>
        IF driver.region = ABSENT THEN config.region = None ELSE config.region = driver.region

\* a further construction from the back-filled configuration resolves the same region
C9_SameRegionAgain ==
    (IsOss /\ wstate = "ok" /\ wstate' = "ok" /\ ctorCount' = ctorCount + 1) =>
        (driver'.region = driver.region /\ config'.region = config.region)

\* C9: after any successful construction of an OSS wrapper the region stored in
\* the configuration equals the region passed to the driver, and constructing a
\* wrapper again from that configuration resolves the same region.
C9_RegionConsistent == [](C9_RegionWrittenBack) /\ [][C9_SameRegionAgain]_vars

\* two constructions, the first of which back-filled the default region
C9_Witness ==
    /\ IsOss /\ wstate = "ok" /\ ctorCount = 2
    /\ given.region = None /\ config.region = CN_HANGZHOU /\ driver.region = CN_HANGZHOU

\* C10: the only change ever made to the configuration record is the OSS region
\* back-fill, made by a construction that found no region; every other step, of
\* any operation in any interleaving, leaves every field as it was.
C10_OnlyBackfill ==
    [][\/ config' = config
       \/ /\ ctorCount' = ctorCount + 1
          /\ IsOss
          /\ config.region = None
          /\ config'.region # None
          /\ config' = [config EXCEPT !.region = config'.region]]_vars

\* the region was back-filled, and uploads and a connection check ran afterwards
C10_Witness ==
    /\ config # given
    /\ lastCheck.outcome # "none"
    /\ \E c \in Callers : Done(c) /\ result[c].kind = "return"
    /\ \E c \in Callers : pc[c] \in {"lookup", "create_container", "upload"}
\* ------------------------------------------------------------ file URLs
\* _generate_file_url has been applied to the configuration and the path
UrlDone == pureIn.set /\ pureOut.set

IsS3 == lower(config.remote_type) = T_S3

\* C11: for provider S3 with no endpoint, or with an endpoint that ends in
\* amazonaws.com, _generate_file_url returns the virtual-host URL
\* https://{bucket}.s3.{region}.amazonaws.com/{p}, where the region is
\* "us-east-1" when none is configured.
C11_S3VirtualHost ==
    (UrlDone /\ IsS3 /\ (config.endpoint = None \/ endswith(config.endpoint, AMAZONAWS_COM)))
    => pureOut.value =
         <<"h","t","t","p","s",":","/","/">> \o config.bucket \o <<".","s","3",".">>
         \o (IF config.region = None THEN <<"u","s","-","e","a","s","t","-","1">>
                                     ELSE config.region)
         \o <<".","a","m","a","z","o","n","a","w","s",".","c","o","m","/">> \o pureIn.value

\* the URL of an Amazon endpoint with no region configured has been derived
C11_Witness ==
    /\ UrlDone /\ IsS3
    /\ config.endpoint = EP_AWS
    /\ config.region = None
    /\ pureIn.value = P_F_HTML
    /\ pureOut.value = <<"h","t","t","p","s",":","/","/","b",".","s","3",".",
                         "u","s","-","e","a","s","t","-","1",".",
                         "a","m","a","z","o","n","a","w","s",".","c","o","m","/",
                         "f",".","h","t","m","l">>

\* the endpoint carries its own scheme
HasScheme(ep) ==
    \/ startswith(ep, <<"h","t","t","p",":","/","/">>)
    \/ startswith(ep, <<"h","t","t","p","s",":","/","/">>)

S3CustomEndpoint ==
    IsS3 /\ config.endpoint # None /\ ~endswith(config.endpoint, AMAZONAWS_COM)

\* C12: for provider S3 with an endpoint that does not end in amazonaws.com,
\* _generate_file_url returns the path-style URL {endpoint}/{bucket}/{p}: the
\* endpoint without its trailing slash, with https:// put in front when it has
\* no scheme of its own.
C12_S3PathStyle ==
    (UrlDone /\ S3CustomEndpoint)
    => LET host == rstrip(config.endpoint, "/")
           scheme == IF HasScheme(config.endpoint)
                       THEN << >> ELSE <<"h","t","t","p","s",":","/","/">>
       IN pureOut.value = scheme \o host \o <<"/">> \o config.bucket \o <<"/">> \o pureIn.value

\* a custom endpoint without scheme and with a trailing slash got its URL
C12_Witness ==
    /\ UrlDone /\ S3CustomEndpoint
    /\ config.endpoint = <<"o","s","s","-","e","u",".","a",".","c","n","/">>
    /\ pureIn.value = <<"x">>
    /\ pureOut.value = <<"h","t","t","p","s",":","/","/","o","s","s","-","e","u",".","a",".","c","n",
                         "/","b","/","x">>

\* C13: for provider OSS with an endpoint, _generate_file_url returns the
\* endpoint (trailing slash stripped, scheme kept, https:// when it has none)
\* with every "oss-" replaced by "{bucket}.oss-", followed by /{p}; for
\* https://oss-cn-hangzhou.aliyuncs.com and bucket b that is
\* https://b.oss-cn-hangzhou.aliyuncs.com/{p}.
C13_OssEndpointUrl ==
    (UrlDone /\ IsOss /\ config.endpoint # None)
    => LET oss == <<"o","s","s","-">>
           scheme == IF HasScheme(config.endpoint)
                       THEN << >> ELSE <<"h","t","t","p","s",":","/","/">>
           pieces == split(scheme \o rstrip(config.endpoint, "/"), oss)
       IN /\ pureOut.value = join(pieces, config.bucket \o <<".">> \o oss) \o <<"/">> \o pureIn.value
          /\ config.endpoint = EP_OSS_HANGZHOU
             => pureOut.value =
                  <<"h","t","t","p","s",":","/","/","b",".","o","s","s","-",
                    "c","n","-","h","a","n","g","z","h","o","u",".",
                    "a","l","i","y","u","n","c","s",".","c","o","m","/">> \o pureIn.value

\* the URL for the endpoint https://oss-cn-hangzhou.aliyuncs.com, region
\* resolved from it, has been derived
C13_Witness ==
    /\ UrlDone /\ IsOss
    /\ config.endpoint = EP_OSS_HANGZHOU
    /\ config.region = <<"c","n","-","h","a","n","g","z","h","o","u">>
    /\ pureIn.value = <<"x">>
    /\ pureOut.value = <<"h","t","t","p","s",":","/","/","b",".","o","s","s","-",
                         "c","n","-","h","a","n","g","z","h","o","u",".",
                         "a","l","i","y","u","n","c","s",".","c","o","m","/","x">>

\* C14: for provider OSS with no endpoint, _generate_file_url returns
\* https://{bucket}.oss-{region}.aliyuncs.com/{p}, where the region is
\* "cn-hangzhou" when none is configured.
C14_OssDefaultUrl ==
    (UrlDone /\ IsOss /\ config.endpoint = None)
    => pureOut.value =
         <<"h","t","t","p","s",":","/","/">> \o config.bucket \o <<".","o","s","s","-">>
         \o (IF config.region = None THEN <<"c","n","-","h","a","n","g","z","h","o","u">>
                                     ELSE config.region)
         \o <<".","a","l","i","y","u","n","c","s",".","c","o","m","/">> \o pureIn.value

\* an OSS URL was derived with neither endpoint nor region configured
C14_Witness ==
    /\ UrlDone /\ IsOss
    /\ config.endpoint = None
    /\ config.region = None
    /\ pureIn.value = <<"u","/","x">>
    /\ pureOut.value = <<"h","t","t","p","s",":","/","/","b",".","o","s","s","-",
                         "c","n","-","h","a","n","g","z","h","o","u",".",
                         "a","l","i","y","u","n","c","s",".","c","o","m","/","u","/","x">>

\* -------------------------------------------------------- S3 driver arguments
\* the endpoint without its leading http:// or https://
SchemeStripped(ep) ==
    IF startswith(ep, <<"h","t","t","p","s",":","/","/">>) THEN SubSeq(ep, 9, Len(ep))
    ELSE IF startswith(ep, <<"h","t","t","p",":","/","/">>) THEN SubSeq(ep, 8, Len(ep))
    ELSE ep

\* the libcloud wrapper built its S3 driver
S3Built == impl = "libcloud" /\ lower(given.remote_type) = T_S3 /\ wstate = "ok"

\* C15: for provider S3 the driver is built with key and secret, with the
\* region only if one is configured, and, if an endpoint is configured, with
\* host = the endpoint without its scheme; secure=False is passed exactly when
\* an endpoint is configured whose scheme is not https, and nothing is passed
\* for secure otherwise.
C15_S3DriverArguments ==
    S3Built =>
      /\ driver.key = given.access_key_id
      /\ driver.secret = given.secret_access_key
      /\ driver.region = (IF given.region # None THEN given.region ELSE ABSENT)
      /\ driver.host = (IF given.endpoint # None THEN SchemeStripped(given.endpoint) ELSE ABSENT)
      /\ (driver.secure = "False")
           <=> (given.endpoint # None
                  /\ ~startswith(given.endpoint, <<"h","t","t","p","s",":","/","/">>))
      /\ driver.secure \in {"False", "unset"}

\* an S3 driver was built for a plain-http endpoint: host without scheme, not secure
C15_Witness ==
    /\ S3Built
    /\ given.endpoint = EP_MINIO
    /\ given.region = None
    /\ driver.host = <<"m","i","n","i","o",".","x">>
    /\ driver.secure = "False"
    /\ driver.region = ABSENT

\* ------------------------------------------------------------ remote paths
\* _build_remote_path has been applied to config.base_path and the relative path
PathDone == pureIn.set /\ pureOut.set

\* s without its leading and trailing slashes
RECURSIVE Trimmed(_)
Trimmed(s) ==
    IF s = << >> THEN s
    ELSE IF Head(s) = "/" THEN Trimmed(Tail(s))
    ELSE IF s[Len(s)] = "/" THEN Trimmed(SubSeq(s, 1, Len(s) - 1))
    ELSE s

\* the non-empty trimmed segments, joined by one slash
JoinedSegments(base, rel) ==
    IF Trimmed(base) = << >> THEN Trimmed(rel)
    ELSE IF Trimmed(rel) = << >> THEN Trimmed(base)
    ELSE Trimmed(base) \o <<"/">> \o Trimmed(rel)

HasDoubledSlash(s) == \E i \in 1..(Len(s) - 1) : s[i] = "/" /\ s[i + 1] = "/"

\* the path is what the contract asks for
WellBuilt(base, rel, out) ==
    /\ out = JoinedSegments(base, rel)
    /\ out = << >> \/ out[1] # "/"
    /\ HasDoubledSlash(out) => (HasDoubledSlash(Trimmed(base)) \/ HasDoubledSlash(Trimmed(rel)))

\* C16: for base_path in {"", "uploads", "/uploads/", "a/b"} and a relative path
\* in {"", "f.html", "/f.html"}, _build_remote_path returns the non-empty
\* slash-trimmed segments joined by one "/", without leading or doubled slash,
\* and the empty string when both are empty.
C16_ListedPaths ==
    (PathDone /\ config.base_path \in ListedBasePaths /\ pureIn.value \in ListedRelPaths)
    => /\ WellBuilt(config.base_path, pureIn.value, pureOut.value)
       /\ ~HasDoubledSlash(pureOut.value)
       /\ (config.base_path = << >> /\ pureIn.value = << >>) => pureOut.value = << >>
       /\ (config.base_path = <<"/","u","p","l","o","a","d","s","/">>
             /\ pureIn.value = <<"/","f",".","h","t","m","l">>)
          => pureOut.value = <<"u","p","l","o","a","d","s","/","f",".","h","t","m","l">>

\* "/uploads/" and "/f.html" were joined
C16_Witness ==
    /\ PathDone
    /\ config.base_path = P_UPLOADS_SLASHED
    /\ pureIn.value = P_SLASH_F_HTML
    /\ pureOut.value = <<"u","p","l","o","a","d","s","/","f",".","h","t","m","l">>

\* C17: for every base_path and every relative path, inputs made of slashes
\* only included, _build_remote_path leaves out each segment that is empty
\* after trimming, and the result neither starts with "/" nor has "//" where
\* two segments meet.
C17_AnyPaths ==
    PathDone => WellBuilt(config.base_path, pureIn.value, pureOut.value)

\* ------------------------------------------------------- upload and its URL
\* the call of caller c returned a URL
Succeeded(c) == Done(c) /\ result[c].kind = "return"

\* the path _build_remote_path makes of base_path, then remote_path, then the file name
FullKey(c) ==
    build_remote_path(config, IF args[c].remote_path # None
                                THEN Trimmed(args[c].remote_path) \o <<"/">> \o args[c].filename
                                ELSE args[c].filename)

\* C18: on every successful upload the returned URL is the URL derivation
\* applied to the object key the object was stored under: the key passed to the
\* backend upload and the path at the end of the URL are the same path, built
\* from base_path, then remote_path, then the file name.
C18_UrlOfStoredKey ==
    \A c \in Callers :
      Succeeded(c) =>
        /\ sentKey[c] \in objects
        /\ endswith(result[c].url, <<"/">> \o sentKey[c])
        /\ impl = "libcloud" =>
             /\ sentKey[c] = FullKey(c)
             /\ result[c].url = generate_file_url(config, sentKey[c])
        /\ impl = "boto3" => result[c].url = s3_file_url(config, sentKey[c])

\* an upload with base_path and remote_path succeeded
C18_Witness ==
    /\ impl = "libcloud" /\ Succeeded(1)
    /\ config.base_path = <<"/","u","p","/">>
    /\ args[1].remote_path = <<"/","p","/">>
    /\ sentKey[1] = <<"u","p","/","p","/","f",".","h","t","m","l">>
    /\ result[1].url = <<"h","t","t","p",":","/","/","m","i","n","i","o",".","x","/","b","/",
                         "u","p","/","p","/","f",".","h","t","m","l">>

\* ------------------------------------------------------------- the container
\* the backend failed the lookup or the creation of the container for caller c
ContainerFailed(c) == impl = "libcloud" /\ fault[c] # NoFault /\ container[c] = "none"

\* C19: _get_or_create_container looks the bucket up and returns its handle if
\* it exists; it creates the bucket only after the lookup signalled that it
\* does not exist, and returns the new handle; any other backend error during
\* lookup or creation reaches the caller of the upload as StorageError, and
\* that step creates no bucket.
C19_GetOrCreate ==
    /\ [](\A c \in Callers :
            /\ container[c] \in {"found", "created"} => bucketExists
            /\ (Done(c) /\ ContainerFailed(c))
               => (result[c].kind = "raise" /\ result[c].err # NoError))
    /\ [][\A c \in Callers :
            /\ (pc[c] = "lookup" /\ pc'[c] = "upload")
               => (bucketExists /\ container'[c] = "found" /\ UNCHANGED bucketExists)
            /\ (pc[c] # "create_container" /\ pc'[c] = "create_container")
               => (pc[c] = "lookup" /\ ~bucketExists /\ UNCHANGED bucketExists)
            /\ (pc[c] = "create_container" /\ pc'[c] = "upload")
               => (~bucketExists /\ bucketExists' /\ container'[c] = "created")
            /\ (~ContainerFailed(c) /\ ContainerFailed(c)')
               => (pc[c] \in {"lookup", "create_container"} /\ pc'[c] = "cleanup"
                     /\ UNCHANGED bucketExists)
            /\ bucketExists' # bucketExists
               => \E d \in Callers : pc[d] = "create_container" /\ container'[d] = "created"]_vars

\* a call created the missing bucket and uploaded into it
C19_Witness ==
    /\ Succeeded(1) /\ impl = "libcloud"
    /\ container[1] = "created"
    /\ bucketExists

\* a call whose lookup failed with an error other than "does not exist" has ended
C19_LookupFailed ==
    /\ Done(1) /\ ContainerFailed(1)
    /\ fault[1].kind = "http"
    /\ result[1].kind = "raise"
    /\ ~bucketExists

\* the create_container call of caller c was answered with "already exists"
CreateLostRace(c) == impl = "libcloud" /\ fault[c] = AlreadyExists

\* C20: when concurrent uploads both try to create the missing bucket, the
\* caller whose create_container is answered with "already exists" treats that
\* as success and completes its upload; no upload fails because another one
\* created the bucket first.
C20_CreateRaceTolerated ==
    \A c \in Callers : (Done(c) /\ CreateLostRace(c)) => Succeeded(c)

\* ---------------------------------------------------------------- interrupts
\* the call of caller c was interrupted while its upload was in flight
WasInterrupted(c) == pending[c] = Raised(Interrupted)

Replied(c) == pc[c] = "replied"

BytesOf(html_content) ==
    CASE html_content = C_EMPTY -> 0
      [] html_content = C_ASCII -> 1
      [] html_content = C_LATIN -> 2
      [] html_content = C_CJK -> 3
      [] html_content = C_EURO -> 4
      [] html_content = C_EMOJI -> 4

\* C23: on a successful deployment size_bytes is the number of bytes of the
\* UTF-8 encoding of the content, not its number of characters, for every
\* content, multi-byte and empty content included.
C23_ByteSize ==
    \A c \in Callers :
      (Replied(c) /\ reply[c].kind = "dict" /\ reply[c].success) =>
        /\ args[c].html_content # C_SURROGATE
        /\ reply[c].size_bytes = BytesOf(args[c].html_content)
        /\ reply[c].size_bytes >= Len(args[c].html_content)

\* a two-character content of four bytes was deployed
C23_Witness ==
    /\ Replied(1) /\ reply[1].success
    /\ args[1].html_content = <<60, 8364>>
    /\ reply[1].size_bytes = 4

\* the empty content was deployed
C23_EmptyDeployed ==
    Replied(1) /\ reply[1].success /\ args[1].html_content = << >> /\ reply[1].size_bytes = 0

\* ------------------------------------------------------ concurrent uploads
\* the call of caller c has written its temporary file and not yet cleaned up
InFlight(c) == pc[c] \in {"lookup", "create_container", "upload", "put", "cleanup"}

\* C24: concurrent uploads never share a temporary file: each call creates its
\* own, the file a call reads while uploading is the one it created, and a file
\* is removed only by the cleanup of the call that created it, so no cleanup
\* removes the file another upload is still uploading.
C24_OwnTempFile ==
    /\ [](\A c \in Callers :
            InFlight(c) =>
              /\ tempPath[c] # 0 /\ tempPath[c] = created[c]
              /\ disk[tempPath[c]] = c
              /\ \A d \in Callers \ {c} : InFlight(d) => tempPath[d] # tempPath[c])
    /\ [][\A n \in TempNames :
            /\ (disk[n] # 0 /\ disk'[n] # disk[n])
               => (disk'[n] = 0 /\ pc[disk[n]] = "cleanup" /\ pc'[disk[n]] = "done"
                     /\ tempPath[disk[n]] = n)
            /\ (disk[n] = 0 /\ disk'[n] # 0)
               => (pc[disk'[n]] = "create" /\ created'[disk'[n]] = n)]_vars

\* one upload has cleaned up while the other is still uploading its own file
C24_Witness ==
    /\ pc[1] = "upload" /\ disk[tempPath[1]] = 1
    /\ pc[2] = "done" /\ Written(2) /\ ~TempLeft(2)
    /\ result[2].kind = "return"

\* ------------------------------------------------------- order of the steps
\* the call of caller c handed an object to the backend upload call
UploadAttempted(c) == sentKey[c] # << >>

\* C25: within one upload the steps come in a fixed order and success is never
\* reported early: the bucket is obtained (found or created) before the object
\* upload is attempted, the URL is generated only after the backend upload call
\* returned without error, and deploy_html answers success=True with a URL only
\* if the object upload completed.
C25_StepOrder ==
    /\ [](\A c \in Callers :
            /\ (impl = "libcloud" /\ (pc[c] = "upload" \/ UploadAttempted(c)))
               => (container[c] \in {"found", "created"} /\ bucketExists)
            /\ pending[c].kind = "return"
               => (UploadAttempted(c) /\ sentKey[c] \in objects /\ fault[c] = NoFault)
            /\ (Replied(c) /\ reply[c].kind = "dict" /\ reply[c].success)
               => /\ UploadAttempted(c) /\ sentKey[c] \in objects
                  /\ pending[c].kind = "return"
                  /\ reply[c].url = pending[c].url /\ reply[c].url # << >>)
    /\ [][\A c \in Callers :
            /\ (~UploadAttempted(c) /\ UploadAttempted(c)')
               => (pc[c] \in {"upload", "put"} /\ pc'[c] = "cleanup")
            /\ (pending[c].kind # "return" /\ pending'[c].kind = "return")
               => (pc[c] \in {"upload", "put"} /\ sentKey'[c] \in objects')
            /\ (container[c] = "none" /\ container'[c] # "none")
               => (~UploadAttempted(c)
                     /\ pc[c] \in {"lookup", "create_container"})]_vars

\* deploy_html answered success=True for an object stored in a bucket the call created
C25_Witness ==
    /\ Replied(1) /\ reply[1].success
    /\ container[1] = "created"
    /\ sentKey[1] \in objects
    /\ reply[1].url = pending[1].url

====
